---- MODULE Spec2Model ----
(***************************************************************************)
(* Vertex-overlap checker of the GS Model Helper add-on (src/__init__.py): *)
(* the operators "Analyze Vertices", "Select Affected Faces", "Select All" *)
(* and "Deselect All" acting on the scene-wide overlap list, together with *)
(* the part of the host (Blender) state they read and write, and the two   *)
(* other operators that switch modes, "Automatic Hard Weights" and "Clean  *)
(* Unassigned Vertices".                                                   *)
(*                                                                         *)
(* Strings are sequences of code points, so that sorting, formatting and   *)
(* parsing are computed as Python computes them.  Weights are thousandths. *)
(***************************************************************************)
EXTENDS Integers, Sequences, FiniteSets, TLC

(***************************************************************************)
(* Python built-ins used by the operators                                  *)
(***************************************************************************)
Range(s) == {s[i] : i \in 1..Len(s)}

\* str < str : comparison of code points, a proper prefix is smaller
RECURSIVE StrLess(_, _)
StrLess(a, b) ==
    IF b = <<>> THEN FALSE
    ELSE IF a = <<>> THEN TRUE
    ELSE IF Head(a) # Head(b) THEN Head(a) < Head(b)
    ELSE StrLess(Tail(a), Tail(b))

StrLeq(a, b) == a = b \/ StrLess(a, b)

\* insertion of x into a sorted list, after the elements not greater than it
RECURSIVE InsertSorted(_, _)
InsertSorted(x, s) ==
    IF s = <<>> THEN <<x>>
    ELSE IF StrLess(x, Head(s)) THEN <<x>> \o s
    ELSE <<Head(s)>> \o InsertSorted(x, Tail(s))

\* sorted(list of str)
RECURSIVE SortedStr(_)
SortedStr(s) ==
    IF s = <<>> THEN <<>>
    ELSE InsertSorted(s[Len(s)], SortedStr(SubSeq(s, 1, Len(s) - 1)))

\* sorted(set of int, reverse=True)
RECURSIVE SortedIntsReversed(_)
SortedIntsReversed(S) ==
    IF S = {} THEN <<>>
    ELSE LET m == CHOOSE x \in S : \A y \in S : x >= y
         IN  <<m>> \o SortedIntsReversed(S \ {m})

\* sorted(set of int)
RECURSIVE SortedInts(_)
SortedInts(S) ==
    IF S = {} THEN <<>>
    ELSE LET m == CHOOSE x \in S : \A y \in S : x <= y
         IN  <<m>> \o SortedInts(S \ {m})

\* itertools.combinations(s, 2): the pairs (s[i], s[j]), i < j, by i then j
RECURSIVE Combinations2(_)
Combinations2(s) ==
    IF Len(s) < 2 THEN <<>>
    ELSE [j \in 1..(Len(s) - 1) |-> <<s[1], s[j + 1]>>] \o Combinations2(Tail(s))

\* str(int) of a non-negative integer
RECURSIVE Str(_)
Str(n) ==
    IF n < 10 THEN <<48 + n>>
    ELSE Str(n \div 10) \o <<48 + (n % 10)>>

\* sep.join(list of str)
RECURSIVE Join(_, _)
Join(sep, parts) ==
    IF parts = <<>> THEN <<>>
    ELSE IF Len(parts) = 1 THEN parts[1]
    ELSE parts[1] \o sep \o Join(sep, Tail(parts))

\* str.split(c) for a one-character separator: always at least one piece
RECURSIVE Split(_, _)
Split(s, c) ==
    IF \A i \in 1..Len(s) : s[i] # c THEN <<s>>
    ELSE LET k == CHOOSE i \in 1..Len(s) :
                     s[i] = c /\ \A j \in 1..(i - 1) : s[j] # c
         IN  <<SubSeq(s, 1, k - 1)>> \o Split(SubSeq(s, k + 1, Len(s)), c)

\* the ASCII white space str.strip() removes
Whitespace == {9, 10, 11, 12, 13, 32}

\* str.strip()
RECURSIVE Strip(_)
Strip(s) ==
    IF s = <<>> THEN <<>>
    ELSE IF Head(s) \in Whitespace THEN Strip(Tail(s))
    ELSE IF s[Len(s)] \in Whitespace THEN Strip(SubSeq(s, 1, Len(s) - 1))
    ELSE s

Digits == 48..57

\* int(str) succeeds: optional sign and decimal digits between white space
IsIntLiteral(s) ==
    LET t == Strip(s)
        d == IF t # <<>> /\ Head(t) \in {43, 45} THEN Tail(t) ELSE t
    IN  d # <<>> /\ \A i \in 1..Len(d) : d[i] \in Digits

RECURSIVE DigitsValue(_)
DigitsValue(d) ==
    IF d = <<>> THEN 0
    ELSE 10 * DigitsValue(SubSeq(d, 1, Len(d) - 1)) + (d[Len(d)] - 48)

\* int(str), where it succeeds
PyInt(s) ==
    LET t == Strip(s)
    IN  IF Head(t) = 45 THEN 0 - DigitsValue(Tail(t))
        ELSE IF Head(t) = 43 THEN DigitsValue(Tail(t))
        ELSE DigitsValue(t)

(***************************************************************************)
(* The scene: objects, their meshes, and the bounds of the model           *)
(***************************************************************************)
\* most vertices the varied mesh has
MaxVerts == 2

None == "None"
Body == "Body"
Example == "Example"
Rig == "Rig"
ObjIds == {Body, Example, Rig}
MeshIds == {Body, Example}

\* vertex group names of the varied mesh, by group index: "Leg", "Arm", "Arm L"
BodyGroups == << <<76, 101, 103>>, <<65, 114, 109>>, <<65, 114, 109, 32, 76>> >>

\* vertex group names of the example mesh: "Hip", "Spine", "Tail"
ExampleGroups ==
    << <<72, 105, 112>>, <<83, 112, 105, 110, 101>>, <<84, 97, 105, 108>> >>

W(g, w) == [group |-> g, weight |-> w]

\* the (group index, weight) lists a vertex of the varied mesh may carry: none,
\* a zero weight beside a positive one, and two and three positive weights
\* listed against the order of their names
VertexProfiles ==
    { <<>>,
      <<W(1, 700), W(2, 0)>>,
      <<W(0, 500), W(1, 500)>>,
      <<W(2, 300), W(1, 300), W(0, 400)>> }

\* faces of the varied mesh: the triangle strip over its vertices
StripFaces(n) == [i \in 1..(IF n >= 3 THEN n - 2 ELSE 0) |-> <<i - 1, i, i + 1>>]

MeshObject(groups, verts, faces) ==
    [type |-> "MESH", vertex_groups |-> groups, vertices |-> verts, faces |-> faces]

\* the varied mesh: up to MaxVerts vertices, with the three groups or with none
BodyMeshes ==
    UNION { { MeshObject(BodyGroups, vs, StripFaces(n)) :
                  vs \in [1..n -> VertexProfiles] } \cup
            { MeshObject(<<>>, [i \in 1..n |-> <<>>], StripFaces(n)) }
            : n \in 0..MaxVerts }

\* the example scenario of the specification: 4 vertices, 2 faces
ExampleMesh ==
    MeshObject(ExampleGroups,
               << <<W(0, 600), W(1, 400)>>, <<W(0, 1000)>>,
                  <<W(1, 300), W(2, 200)>>, <<>> >>,
               << <<0, 1, 2>>, <<1, 2, 3>> >>)

RigObject ==
    [type |-> "ARMATURE", vertex_groups |-> <<>>, vertices |-> <<>>, faces |-> <<>>]

VARIABLES
    objects,                \* bpy.data.objects: id -> type, groups, vertices, faces
    active_object,          \* context.active_object: an id, or None
    mode,                   \* obj.mode of each object
    face_select,            \* per mesh, the indices of the faces with f.select
    selected_objects,       \* the objects with select_get()
    mesh_select_mode,       \* tool_settings.mesh_select_mode
    use_auto_normalize,     \* tool_settings.use_auto_normalize
    vertex_overlap_list,    \* scene.vertex_overlap_list
    last,                   \* the operator that ran last: its reports and result
    runs                    \* record of the analyses of each mesh (kept by SpecRuns)

vars == <<objects, active_object, mode, face_select, selected_objects,
          mesh_select_mode, use_auto_normalize, vertex_overlap_list, last, runs>>

FaceIds(o) == 0..(Len(objects[o].faces) - 1)

\* wm.progress_begin, the values given to wm.progress_update, wm.progress_end
NoProgress == [begin |-> FALSE, updates |-> <<>>, end |-> FALSE]

HostStep == [op |-> "host", result |-> "NONE", reports |-> <<>>, progress |-> NoProgress]

Report(type, message, args) == [type |-> type, message |-> message, args |-> args]

Ran(op, result, reports, progress) ==
    [op |-> op, result |-> result, reports |-> reports, progress |-> progress]

\* no analysis of the mesh was recorded
NotRun == [ran |-> FALSE, again |-> FALSE, first |-> <<>>, flagged |-> FALSE]

Init ==
    /\ \E body \in BodyMeshes :
           objects = [o \in ObjIds |->
                         IF o = Body THEN body
                         ELSE IF o = Example THEN ExampleMesh ELSE RigObject]
    /\ active_object = None
    /\ mode = [o \in ObjIds |-> "OBJECT"]
    /\ face_select = [o \in MeshIds |-> {}]
    /\ selected_objects = {}
    /\ mesh_select_mode = <<TRUE, FALSE, FALSE>>
    /\ use_auto_normalize = FALSE
    /\ vertex_overlap_list = <<>>
    /\ last = HostStep
    /\ runs = [o \in MeshIds |-> NotRun]

(***************************************************************************)
(* validate_active_object                                                  *)
(***************************************************************************)
\* the error message returned, or "" where the code returns (obj, None)
validate_active_object(required_type) ==
    IF active_object = None THEN "No active object selected"
    ELSE IF objects[active_object].type # required_type
         THEN "Active object must be a {required_type}, not {obj.type}"
         ELSE ""

(***************************************************************************)
(* OBJECT_OT_check_vertex_overlaps                                         *)
(***************************************************************************)
\* ActiveGroupNames with the test g.weight >= 0.0
ActiveGroupNamesZeroToo(obj, v) ==
    LET gs == obj.vertices[v]
    IN  [i \in 1..Len(gs) |-> obj.vertex_groups[gs[i].group + 1]]

\* groups = [vertex_groups[g.group].name for g in v.groups if g.weight > 0.0]
ActiveGroupNames(obj, v) ==
    LET gs == obj.vertices[v]
        RECURSIVE Pick(_)
        Pick(i) ==
            IF i > Len(gs) THEN <<>>
            ELSE (IF gs[i].weight > 0
                  THEN <<obj.vertex_groups[gs[i].group + 1]>>
                  ELSE <<>>) \o Pick(i + 1)
    IN  Pick(1)

\* AddOverlap with the add() left inside the "if key not in overlaps_map"
AddOverlapFirstOnly(map, key, index) ==
    IF \E k \in 1..Len(map) : map[k].key = key
    THEN map
    ELSE Append(map, [key |-> key, verts |-> {index}])

\* overlaps_map[key].add(index), the key created on first encounter; the dict
\* keeps its keys in insertion order
AddOverlap(map, key, index) ==
    IF \E k \in 1..Len(map) : map[k].key = key
    THEN [k \in 1..Len(map) |->
             IF map[k].key = key
             THEN [map[k] EXCEPT !.verts = @ \cup {index}]
             ELSE map[k]]
    ELSE Append(map, [key |-> key, verts |-> {index}])

\* ScanVertex with combinations(groups, 2): the names left in the vertex's order
ScanVertexUnsorted(obj, v, map) ==
    LET groups == ActiveGroupNames(obj, v)
        pairs == Combinations2(groups)
        RECURSIVE Add(_, _)
        Add(m, j) ==
            IF j > Len(pairs) THEN m
            ELSE Add(AddOverlap(m, pairs[j], v - 1), j + 1)
    IN  IF Len(groups) > 1 THEN Add(map, 1) ELSE map

\* the body of the loop for one vertex: every pair of its sorted active names
ScanVertex(obj, v, map) ==
    LET groups == ActiveGroupNames(obj, v)
        pairs == Combinations2(SortedStr(groups))
        RECURSIVE Add(_, _)
        Add(m, j) ==
            IF j > Len(pairs) THEN m
            ELSE Add(AddOverlap(m, pairs[j], v - 1), j + 1)
    IN  IF Len(groups) > 1 THEN Add(map, 1) ELSE map

\* the loop over the vertices lo..hi, in their order. It is unfolded by halves,
\* and the map of the first half is evaluated (by the test of its length) before
\* the second half is entered, so that TLC evaluates a loop of some hundred
\* vertices without nesting one evaluation per vertex.
RECURSIVE ScanRange(_, _, _, _)
ScanRange(obj, lo, hi, map) ==
    IF lo > hi THEN map
    ELSE IF lo = hi THEN ScanVertex(obj, lo, map)
    ELSE LET mid == (lo + hi) \div 2
             scanned == ScanRange(obj, lo, mid, map)
         IN  IF Len(scanned) >= 0 THEN ScanRange(obj, mid + 1, hi, scanned)
             ELSE scanned

\* for i, v in enumerate(obj.data.vertices): ...
ScanVertices(obj, v, map) == ScanRange(obj, v, Len(obj.vertices), map)

OverlapsMap(obj) == ScanVertices(obj, 1, <<>>)

\* f"{g1} + {g2}"
GroupsLabel(g1, g2) == g1 \o <<32, 43, 32>> \o g2

\* ",".join(map(str, unique_verts))
VertsText(unique_verts) ==
    Join(<<44>>, [k \in 1..Len(unique_verts) |-> Str(unique_verts[k])])

\* OverlapItem with item.selected = True
OverlapItemSelected(entry) ==
    LET unique_verts == SortedInts(entry.verts)
    IN  [groups   |-> GroupsLabel(entry.key[1], entry.key[2]),
         count    |-> Len(unique_verts),
         verts    |-> VertsText(unique_verts),
         selected |-> TRUE]

\* item = scene.vertex_overlap_list.add(), filled from one entry of the map
OverlapItem(entry) ==
    LET unique_verts == SortedInts(entry.verts)
    IN  [groups   |-> GroupsLabel(entry.key[1], entry.key[2]),
         count    |-> Len(unique_verts),
         verts    |-> VertsText(unique_verts),
         selected |-> FALSE]

\* the list with the call of clear() missing
ClearNothing(list) == list

\* scene.vertex_overlap_list.clear()
Clear(list) == <<>>

\* AddItems with the loop over sorted(overlaps_map.items()): the keys in the
\* order of their names
RECURSIVE AddItemsSorted(_, _)
AddItemsSorted(list, map) ==
    IF map = <<>> THEN list
    ELSE LET Before(a, b) == StrLess(a[1], b[1]) \/ (a[1] = b[1] /\ StrLess(a[2], b[2]))
             k == CHOOSE i \in 1..Len(map) :
                      \A j \in 1..Len(map) : j # i => Before(map[i].key, map[j].key)
         IN  AddItemsSorted(Append(list, OverlapItem(map[k])),
                            SubSeq(map, 1, k - 1) \o SubSeq(map, k + 1, Len(map)))

\* the list as the second loop leaves it: one add() per key, in the dict's order
AddItems(list, map) == list \o [k \in 1..Len(map) |-> OverlapItem(map[k])]

\* a / b and a * n of the progress value, kept as the exact fraction num / den
\* (the rounding of the float is left out)
Quotient(a, b) == [num |-> a, den |-> b]

Times(q, n) == [num |-> q.num * n, den |-> q.den]

\* ProgressUpdates with wm.progress_update(i): the index passed for the percentage
ProgressUpdatesIndex(total_verts) ==
    LET at == {i \in 0..(total_verts - 1) : i % 100 = 0}
        is == SortedInts(at)
    IN  [k \in 1..Len(is) |-> [i |-> is[k], value |-> Quotient(is[k], 1)]]

\* the calls wm.progress_update(i / total_verts * 100) of the scan, in order:
\* one at every vertex with i % 100 == 0, each with the place i of its vertex
ProgressUpdates(total_verts) ==
    LET at == {i \in 0..(total_verts - 1) : i % 100 = 0}
        is == SortedInts(at)
    IN  [k \in 1..Len(is) |->
            [i |-> is[k], value |-> Times(Quotient(is[k], total_verts), 100)]]

check_vertex_overlaps ==
    LET error == validate_active_object("MESH")
        obj == objects[active_object]
    IN
    IF error # ""
    THEN /\ last' = Ran("check_vertex_overlaps", "CANCELLED",
                        <<Report("ERROR", error, <<>>)>>, NoProgress)
         /\ UNCHANGED vertex_overlap_list
    ELSE IF obj.vertex_groups = <<>>
    THEN /\ last' = Ran("check_vertex_overlaps", "CANCELLED",
                        <<Report("WARNING", "No vertex groups found on this mesh", <<>>)>>,
                        NoProgress)
         /\ UNCHANGED vertex_overlap_list
    ELSE LET items == AddItems(Clear(vertex_overlap_list), OverlapsMap(obj))
         IN  /\ vertex_overlap_list' = items
             /\ last' = Ran("check_vertex_overlaps", "FINISHED",
                            <<IF Len(items) = 0
                              THEN Report("INFO", "No overlapping vertex weights found", <<>>)
                              ELSE Report("INFO", "Found {n} overlap pairs", <<Len(items)>>)>>,
                            [begin |-> TRUE, updates |-> ProgressUpdates(Len(obj.vertices)),
                             end |-> TRUE])

\* AnalyzeVertices with the mesh taken out of edit mode before its vertices are read
AnalyzeVerticesInObjectMode ==
    /\ check_vertex_overlaps
    /\ mode' = [o \in ObjIds |->
                    IF o = active_object /\ objects[o].type = "MESH"
                    THEN "OBJECT" ELSE mode[o]]
    /\ UNCHANGED <<objects, active_object, face_select, selected_objects,
                   mesh_select_mode, use_auto_normalize>>

AnalyzeVertices ==
    /\ check_vertex_overlaps
    /\ UNCHANGED <<objects, active_object, mode, face_select, selected_objects,
                   mesh_select_mode, use_auto_normalize>>

Analyze ==
    /\ AnalyzeVertices
    /\ UNCHANGED runs

\* the labels and index texts of the list, in its order
Entries(list) ==
    [k \in 1..Len(list) |-> [groups |-> list[k].groups, verts |-> list[k].verts]]

\* the operator, with a record kept for the mesh it ran on: whether it ran
\* before, what its first run left in the list, and whether this run found a
\* flagged entry there
AnalyzeRecorded ==
    /\ AnalyzeVertices
    /\ runs' =
           IF active_object \in MeshIds
           THEN [runs EXCEPT ![active_object] =
                    [ran     |-> TRUE,
                     again   |-> @.ran,
                     first   |-> IF @.ran THEN @.first
                                 ELSE Entries(vertex_overlap_list'),
                     flagged |-> \E k \in 1..Len(vertex_overlap_list) :
                                    vertex_overlap_list[k].selected]]
           ELSE runs

(***************************************************************************)
(* OBJECT_OT_select_overlap_vertices                                       *)
(***************************************************************************)
\* the pieces of item.verts.split(",") that are not blank
VertsTokens(item) ==
    LET parts == Split(item.verts, 44)
    IN  {parts[k] : k \in {j \in 1..Len(parts) : Strip(parts[j]) # <<>>}}

\* what one selected item adds to indices: nothing when verts is blank, and
\* nothing when int() raises ValueError on any piece (the item is only logged)
ItemIndices(item) ==
    IF Strip(item.verts) = <<>> THEN {}
    ELSE IF \A t \in VertsTokens(item) : IsIntLiteral(t)
         THEN {PyInt(t) : t \in VertsTokens(item)}
         ELSE {}

\* indices after the loop over the list
SelectedIndices(overlap_list) ==
    UNION {ItemIndices(overlap_list[k]) :
               k \in {j \in 1..Len(overlap_list) : overlap_list[j].selected}}

\* selected_count after the loop over the list
SelectedCount(overlap_list) ==
    Cardinality({j \in 1..Len(overlap_list) : overlap_list[j].selected})

\* FacesTouching with each index looked up among the vertices first: an index
\* that is no vertex ends the search without a face
FacesTouchingLookup(obj, indices) ==
    IF \A i \in indices : i \in 0..(Len(obj.vertices) - 1)
    THEN {f \in 0..(Len(obj.faces) - 1) : \E v \in Range(obj.faces[f + 1]) : v \in indices}
    ELSE {}

\* the faces with any(v.index in indices for v in f.verts)
FacesTouching(obj, indices) ==
    {f \in 0..(Len(obj.faces) - 1) : \E v \in Range(obj.faces[f + 1]) : v \in indices}

\* SelectOutcome with the test of indices moved before the test of selected_count
SelectOutcomeSwapped(overlap_list, selected_count, indices) ==
    IF Len(overlap_list) = 0
    THEN "No overlaps found. Run 'Check Vertex Overlaps' first"
    ELSE IF indices = {}
    THEN "No vertices found in selected overlap items"
    ELSE IF selected_count = 0
    THEN "No overlap items selected. Check the boxes next to the items you want to select"
    ELSE ""

\* the three early returns after validation, in the order the code tests them
SelectOutcome(overlap_list, selected_count, indices) ==
    IF Len(overlap_list) = 0
    THEN "No overlaps found. Run 'Check Vertex Overlaps' first"
    ELSE IF selected_count = 0
    THEN "No overlap items selected. Check the boxes next to the items you want to select"
    ELSE IF indices = {}
    THEN "No vertices found in selected overlap items"
    ELSE ""

\* SelectCancelled with the faces of the active mesh deselected before the return
SelectCancelledDeselecting(type, message) ==
    /\ last' = Ran("select_overlap_vertices", "CANCELLED",
                   <<Report(type, message, <<>>)>>, NoProgress)
    /\ face_select' = [o \in MeshIds |->
                          IF o = active_object THEN {} ELSE face_select[o]]
    /\ UNCHANGED <<mode, selected_objects, mesh_select_mode, use_auto_normalize>>

\* an early return: nothing but the report
SelectCancelled(type, message) ==
    /\ last' = Ran("select_overlap_vertices", "CANCELLED",
                   <<Report(type, message, <<>>)>>, NoProgress)
    /\ UNCHANGED <<mode, face_select, selected_objects, mesh_select_mode,
                   use_auto_normalize>>

\* NewFaceSelection without the loop that clears f.select first
NewFaceSelectionMerged(old, touching) == old \cup touching

\* f.select of the faces after both loops: all cleared, then the touching ones set
NewFaceSelection(old, touching) == touching

select_overlap_vertices ==
    LET error == validate_active_object("MESH")
        obj == objects[active_object]
        overlap_list == vertex_overlap_list
        indices == SelectedIndices(overlap_list)
        selected_count == SelectedCount(overlap_list)
        warning == SelectOutcome(overlap_list, selected_count, indices)
        faces == NewFaceSelection(face_select[active_object],
                                  FacesTouching(obj, indices))
        selected_faces == Cardinality(FacesTouching(obj, indices))
    IN
    IF error # "" THEN SelectCancelled("ERROR", error)
    ELSE IF warning # "" THEN SelectCancelled("WARNING", warning)
    ELSE /\ selected_objects' = selected_objects \cup {active_object}
         /\ mode' = [mode EXCEPT ![active_object] = "EDIT"]
         /\ mesh_select_mode' = <<FALSE, FALSE, TRUE>>
         /\ UNCHANGED use_auto_normalize
         /\ face_select' = [face_select EXCEPT ![active_object] = faces]
         /\ last' = Ran("select_overlap_vertices", "FINISHED",
                        <<Report("INFO",
                                 "Selected {selected_faces} faces from {len(indices)} vertices ({selected_count} overlap groups)",
                                 <<selected_faces, Cardinality(indices), selected_count>>)>>,
                        NoProgress)

SelectAffectedFaces ==
    /\ select_overlap_vertices
    /\ UNCHANGED <<objects, active_object, vertex_overlap_list, runs>>

(***************************************************************************)
(* OBJECT_OT_select_all_overlaps, OBJECT_OT_deselect_all_overlaps, and the *)
(* tick box VERTEXOVERLAP_UL_list draws for each item                      *)
(***************************************************************************)
SetAllSelected(flag) ==
    [k \in 1..Len(vertex_overlap_list) |->
        [vertex_overlap_list[k] EXCEPT !.selected = flag]]

SelectAll ==
    /\ vertex_overlap_list' = SetAllSelected(TRUE)
    /\ last' = Ran("select_all_overlaps", "FINISHED",
                   <<Report("INFO", "Selected all {n} overlap items",
                            <<Len(vertex_overlap_list)>>)>>, NoProgress)
    /\ UNCHANGED <<objects, active_object, mode, face_select, selected_objects,
                   mesh_select_mode, use_auto_normalize, runs>>

DeselectAll ==
    /\ vertex_overlap_list' = SetAllSelected(FALSE)
    /\ last' = Ran("deselect_all_overlaps", "FINISHED",
                   <<Report("INFO", "Deselected all overlap items", <<>>)>>, NoProgress)
    /\ UNCHANGED <<objects, active_object, mode, face_select, selected_objects,
                   mesh_select_mode, use_auto_normalize, runs>>

\* the user ticks or clears the box of one row
ToggleSelected(k) ==
    /\ k \in 1..Len(vertex_overlap_list)
    /\ vertex_overlap_list' =
           [vertex_overlap_list EXCEPT ![k].selected = ~@]
    /\ last' = HostStep
    /\ UNCHANGED <<objects, active_object, mode, face_select, selected_objects,
                   mesh_select_mode, use_auto_normalize, runs>>

(***************************************************************************)
(* The host: the user makes another object active, or clicks a face in     *)
(* edit mode                                                               *)
(***************************************************************************)
SetActive(o) ==
    /\ o # active_object
    /\ active_object' = o
    /\ last' = HostStep
    /\ UNCHANGED <<objects, mode, face_select, selected_objects, mesh_select_mode,
                   use_auto_normalize,
                   vertex_overlap_list, runs>>

ToggleFace(o, f) ==
    /\ mode[o] = "EDIT"
    /\ f \in FaceIds(o)
    /\ face_select' = [face_select EXCEPT ![o] =
                          IF f \in @ THEN @ \ {f} ELSE @ \cup {f}]
    /\ last' = HostStep
    /\ UNCHANGED <<objects, active_object, mode, selected_objects, mesh_select_mode,
                   use_auto_normalize,
                   vertex_overlap_list, runs>>

Next ==
    \/ Analyze
    \/ SelectAffectedFaces
    \/ SelectAll
    \/ DeselectAll
    \/ \E k \in 1..Len(vertex_overlap_list) : ToggleSelected(k)
    \/ \E o \in ObjIds \cup {None} : SetActive(o)
    \/ \E o \in MeshIds : \E f \in FaceIds(o) : ToggleFace(o, f)

Spec == Init /\ [][Next]_vars

\* most vertices the varied mesh has where scripts edit the list
MaxScriptedVerts == 1

\* a script (or a stale file) leaves an item of the list without index text:
\* the case the operator guards against with item.verts.strip()
BlankVerts(k) ==
    /\ k \in 1..Len(vertex_overlap_list)
    /\ vertex_overlap_list[k].verts # <<>>
    /\ vertex_overlap_list' = [vertex_overlap_list EXCEPT ![k].verts = <<>>]
    /\ last' = HostStep
    /\ UNCHANGED <<objects, active_object, mode, face_select, selected_objects,
                   mesh_select_mode, use_auto_normalize, runs>>

InitScripted == Init /\ Len(objects[Body].vertices) <= MaxScriptedVerts

NextScripted ==
    \/ Next
    \/ \E k \in 1..Len(vertex_overlap_list) : BlankVerts(k)

\* the operators and the host, with items a script has blanked
SpecScripted == InitScripted /\ [][NextScripted]_vars

\* analyses, flag changes and changes of the active object, with the record of
\* the analyses kept
NextRuns ==
    \/ AnalyzeRecorded
    \/ SelectAll
    \/ DeselectAll
    \/ \E k \in 1..Len(vertex_overlap_list) : ToggleSelected(k)
    \/ \E o \in ObjIds \cup {None} : SetActive(o)

SpecRuns == Init /\ [][NextRuns]_vars

(***************************************************************************)
(* OBJECT_OT_vertex_weight_quickfix ("Automatic Hard Weights")             *)
(***************************************************************************)
\* bpy.ops.object.vertex_group_quantize(steps=1) on one weight: the weight
\* rounded to the nearest of 0.0 and 1.0
QuantizeWeight(w) == IF 2 * w >= 1000 THEN 1000 ELSE 0

Quantize(gs) == [k \in 1..Len(gs) |-> W(gs[k].group, QuantizeWeight(gs[k].weight))]

\* bpy.ops.object.vertex_group_limit_total(limit=1) on one vertex: the lowest
\* weights removed until one is left; among equal weights the host may keep any
LimitTotal(gs) ==
    IF Len(gs) <= 1 THEN {gs}
    ELSE { <<gs[k]>> : k \in {j \in 1..Len(gs) :
                                 \A i \in 1..Len(gs) : gs[j].weight >= gs[i].weight} }

\* the vertices the two host operators may leave
HardWeights(verts) ==
    LET choices == [v \in 1..Len(verts) |-> LimitTotal(Quantize(verts[v]))]
    IN  {vs \in [1..Len(verts) -> UNION {choices[v] : v \in 1..Len(verts)}] :
            \A v \in 1..Len(verts) : vs[v] \in choices[v]}

vertex_weight_quickfix ==
    LET error == validate_active_object("MESH")
        obj == objects[active_object]
    IN
    IF error # ""
    THEN /\ last' = Ran("vertex_weight_quickfix", "CANCELLED",
                        <<Report("ERROR", error, <<>>)>>, NoProgress)
         /\ UNCHANGED <<objects, mode, selected_objects, use_auto_normalize>>
    ELSE IF obj.vertex_groups = <<>>
    THEN /\ last' = Ran("vertex_weight_quickfix", "CANCELLED",
                        <<Report("WARNING", "No vertex groups found on this mesh", <<>>)>>,
                        NoProgress)
         /\ UNCHANGED <<objects, mode, selected_objects, use_auto_normalize>>
    ELSE /\ selected_objects' = selected_objects \cup {active_object}
         /\ mode' = [mode EXCEPT ![active_object] = "WEIGHT_PAINT"]
         /\ use_auto_normalize' = TRUE
         /\ \E vs \in HardWeights(obj.vertices) :
                objects' = [objects EXCEPT ![active_object].vertices = vs]
         /\ last' = Ran("vertex_weight_quickfix", "FINISHED",
                        <<Report("INFO",
                                 "Applied Auto-Normalize, Quantize, and Limit Total (1)",
                                 <<>>)>>,
                        NoProgress)

AutomaticHardWeights ==
    /\ vertex_weight_quickfix
    /\ UNCHANGED <<active_object, face_select, mesh_select_mode, vertex_overlap_list,
                   runs>>

(***************************************************************************)
(* OBJECT_OT_remove_unused_vertex_groups ("Clean Unassigned Vertices")     *)
(***************************************************************************)
\* the indices of the groups some vertex carries with a weight above 0.0
UsedGroups(obj) ==
    {g \in 0..(Len(obj.vertex_groups) - 1) :
        \E v \in 1..Len(obj.vertices) : \E k \in 1..Len(obj.vertices[v]) :
            obj.vertices[v][k].group = g /\ obj.vertices[v][k].weight > 0}

\* the object after obj.vertex_groups.remove(vg) for every unused group: the
\* group is taken off every vertex and the groups after it move down one index
RemoveUnused(obj) ==
    LET used == UsedGroups(obj)
        kept == SortedInts(used)
        index(g) == Cardinality({h \in used : h < g})
        Carried(m) == m.group \in used
        moved(gs) == LET left == SelectSeq(gs, Carried)
                     IN  [k \in 1..Len(left) |-> W(index(left[k].group), left[k].weight)]
    IN  [obj EXCEPT
            !.vertex_groups = [k \in 1..Len(kept) |-> obj.vertex_groups[kept[k] + 1]],
            !.vertices = [v \in 1..Len(obj.vertices) |-> moved(obj.vertices[v])]]

\* the selected objects of type MESH
SelectedMeshes == {o \in selected_objects : objects[o].type = "MESH"}

\* the operator; raises: a call to the host inside the try block raises after
\* the selected meshes were switched to object mode.  The operator makes each
\* mesh it switches or processes the active object in turn; the order of
\* context.selected_objects is the host's, so the last of them is any of them.
remove_unused_vertex_groups(raises) ==
    LET original_modes == [o \in SelectedMeshes |-> mode[o]]
        switched == {o \in SelectedMeshes : mode[o] # "OBJECT"}
        removed_total ==
            Len(objects[Body].vertex_groups) + Len(objects[Example].vertex_groups)
    IN
    IF selected_objects = {}
    THEN /\ ~raises
         /\ last' = Ran("remove_unused_vertex_groups", "CANCELLED",
                        <<Report("WARNING", "No objects selected", <<>>)>>, NoProgress)
         /\ UNCHANGED <<objects, active_object, mode>>
    ELSE IF raises
    THEN /\ SelectedMeshes # {}
         /\ mode' = [o \in ObjIds |-> IF o \in SelectedMeshes THEN "OBJECT" ELSE mode[o]]
         /\ active_object' \in SelectedMeshes \cup {active_object}
         /\ last' = Ran("remove_unused_vertex_groups", "CANCELLED",
                        <<Report("ERROR", "Error removing vertex groups: {str(e)}", <<>>)>>,
                        NoProgress)
         /\ UNCHANGED objects
    ELSE /\ objects' = [o \in ObjIds |->
                           IF o \in SelectedMeshes THEN RemoveUnused(objects[o])
                           ELSE objects[o]]
         /\ mode' = [o \in ObjIds |->
                        IF o \in SelectedMeshes THEN original_modes[o] ELSE mode[o]]
         /\ active_object' \in
                IF switched # {} THEN switched
                ELSE IF SelectedMeshes # {} THEN SelectedMeshes
                ELSE {active_object}
         /\ last' = Ran("remove_unused_vertex_groups", "FINISHED",
                        <<IF removed_total' = removed_total
                          THEN Report("INFO", "No unused vertex groups found", <<>>)
                          ELSE Report("INFO",
                                      "Removed {removed_total} unused vertex groups from {len(context.selected_objects)} object(s)",
                                      <<removed_total - removed_total',
                                        Cardinality(selected_objects)>>)>>,
                        NoProgress)

CleanUnassignedVertices ==
    /\ \E raises \in BOOLEAN : remove_unused_vertex_groups(raises)
    /\ UNCHANGED <<face_select, selected_objects, mesh_select_mode, use_auto_normalize,
                   vertex_overlap_list, runs>>

\* the three operators that switch modes, with the analysis and the host
NextModes ==
    \/ Analyze
    \/ SelectAffectedFaces
    \/ AutomaticHardWeights
    \/ CleanUnassignedVertices
    \/ \E k \in 1..Len(vertex_overlap_list) : ToggleSelected(k)
    \/ \E o \in ObjIds \cup {None} : SetActive(o)

\* most vertices the varied mesh has where the weights and groups are edited
MaxEditedVerts == 1

InitModes == Init /\ Len(objects[Body].vertices) <= MaxEditedVerts

SpecModes == InitModes /\ [][NextModes]_vars

(***************************************************************************)
(* The host: the user deletes a vertex of a mesh in edit mode              *)
(***************************************************************************)
\* most vertices the varied mesh has where vertices are deleted
MaxStripVerts == 4

\* the (group index, weight) lists of the vertices of those meshes
StripProfiles ==
    { <<W(1, 1000)>>,
      <<W(0, 500), W(1, 500)>> }

\* triangle strips of 3 to MaxStripVerts vertices
StripMeshes ==
    UNION { { MeshObject(BodyGroups, vs, StripFaces(n)) :
                  vs \in [1..n -> StripProfiles] }
            : n \in 3..MaxStripVerts }

\* the sequence without its element at place k
Without(seq, k) == SubSeq(seq, 1, k - 1) \o SubSeq(seq, k + 1, Len(seq))

\* vertex v of mesh o, the active object, is deleted: the faces that use it go with it, and the
\* vertices and faces after them move down to keep the indices dense
DeleteVertex(o, v) ==
    LET obj == objects[o]
        Kept(f) == \A i \in 1..Len(f) : f[i] # v
        kept == {f \in FaceIds(o) : Kept(obj.faces[f + 1])}
        moved(f) == [i \in 1..Len(f) |-> IF f[i] > v THEN f[i] - 1 ELSE f[i]]
        faces == SelectSeq(obj.faces, Kept)
        index(f) == Cardinality({g \in kept : g < f})
    IN
    /\ o = active_object
    /\ mode[o] = "EDIT"
    /\ v \in 0..(Len(obj.vertices) - 1)
    /\ objects' = [objects EXCEPT
                       ![o].vertices = Without(obj.vertices, v + 1),
                       ![o].faces = [k \in 1..Len(faces) |-> moved(faces[k])]]
    /\ face_select' = [face_select EXCEPT
                           ![o] = {index(f) : f \in face_select[o] \cap kept}]
    /\ last' = HostStep
    /\ UNCHANGED <<active_object, mode, selected_objects, mesh_select_mode,
                   use_auto_normalize, vertex_overlap_list, runs>>

InitEdited ==
    /\ \E body \in StripMeshes :
           objects = [o \in ObjIds |->
                         IF o = Body THEN body
                         ELSE IF o = Example THEN ExampleMesh ELSE RigObject]
    /\ active_object = None
    /\ mode = [o \in ObjIds |-> "OBJECT"]
    /\ face_select = [o \in MeshIds |-> {}]
    /\ selected_objects = {}
    /\ mesh_select_mode = <<TRUE, FALSE, FALSE>>
    /\ use_auto_normalize = FALSE
    /\ vertex_overlap_list = <<>>
    /\ last = HostStep
    /\ runs = [o \in MeshIds |-> NotRun]

NextEdited ==
    \/ Analyze
    \/ SelectAffectedFaces
    \/ \E k \in 1..Len(vertex_overlap_list) : ToggleSelected(k)
    \/ \E o \in ObjIds \cup {None} : SetActive(o)
    \/ \E o \in MeshIds : \E v \in 0..(Len(objects[o].vertices) - 1) : DeleteVertex(o, v)

\* the analysis and the selection, with vertices deleted between them
SpecEdited == InitEdited /\ [][NextEdited]_vars

(***************************************************************************)
(* Meshes of hundreds of vertices                                          *)
(***************************************************************************)
\* the hundreds of vertices the largest of those meshes has
MaxHundreds == 2

\* vertex i of such a mesh: in two groups at the ends of each hundred
DenseVertex(i) ==
    IF i % 100 \in {0, 99} THEN <<W(0, 500), W(1, 500)>> ELSE <<W(1, 1000)>>

\* meshes of 0, 1, 100, 101, 200, 201, ... vertices with one face at most
DenseMeshes ==
    { MeshObject(BodyGroups, [v \in 1..n |-> DenseVertex(v - 1)],
                 StripFaces(IF n >= 3 THEN 3 ELSE 0)) :
          n \in {100 * h + r : h \in 0..MaxHundreds, r \in 0..1} }

InitDense ==
    /\ \E body \in DenseMeshes :
           objects = [o \in ObjIds |->
                         IF o = Body THEN body
                         ELSE IF o = Example THEN ExampleMesh ELSE RigObject]
    /\ active_object = None
    /\ mode = [o \in ObjIds |-> "OBJECT"]
    /\ face_select = [o \in MeshIds |-> {}]
    /\ selected_objects = {}
    /\ mesh_select_mode = <<TRUE, FALSE, FALSE>>
    /\ use_auto_normalize = FALSE
    /\ vertex_overlap_list = <<>>
    /\ last = HostStep
    /\ runs = [o \in MeshIds |-> NotRun]

\* the operators and the host, on meshes long enough for several progress updates
SpecDense == InitDense /\ [][Next]_vars

\* vertex group names where two group indices carry one display name:
\* "Arm", "Arm", "Leg"
SameNameGroups == << <<65, 114, 109>>, <<65, 114, 109>>, <<76, 101, 103>> >>

\* the varied mesh with those groups
SameNameMeshes ==
    UNION { { MeshObject(SameNameGroups, vs, StripFaces(n)) :
                  vs \in [1..n -> VertexProfiles] }
            : n \in 0..MaxVerts }

InitSameNames ==
    /\ \E body \in SameNameMeshes :
           objects = [o \in ObjIds |->
                         IF o = Body THEN body
                         ELSE IF o = Example THEN ExampleMesh ELSE RigObject]
    /\ active_object = None
    /\ mode = [o \in ObjIds |-> "OBJECT"]
    /\ face_select = [o \in MeshIds |-> {}]
    /\ selected_objects = {}
    /\ mesh_select_mode = <<TRUE, FALSE, FALSE>>
    /\ use_auto_normalize = FALSE
    /\ vertex_overlap_list = <<>>
    /\ last = HostStep
    /\ runs = [o \in MeshIds |-> NotRun]

\* the operators and the host, on a mesh whose group names are not unique
SpecSameNames == InitSameNames /\ [][Next]_vars

(***************************************************************************)
(* Vocabulary of the properties                                            *)
(***************************************************************************)
\* the mesh the operator that ran last worked on
Mesh == objects[active_object]

ActiveIsMesh == active_object # None /\ objects[active_object].type = "MESH"

AnalyzeRan == last.op = "check_vertex_overlaps" /\ ActiveIsMesh

AnalyzeFinished == AnalyzeRan /\ last.result = "FINISHED"

VertexIds(obj) == 0..(Len(obj.vertices) - 1)

GroupIds(obj) == 0..(Len(obj.vertex_groups) - 1)

GroupName(obj, g) == obj.vertex_groups[g + 1]

\* vertex v is a member of group g: it carries g with a weight above 0.0
IsMember(obj, v, g) ==
    \E k \in 1..Len(obj.vertices[v + 1]) :
        obj.vertices[v + 1][k].group = g /\ obj.vertices[v + 1][k].weight > 0

MemberGroups(obj, v) == {g \in GroupIds(obj) : IsMember(obj, v, g)}

\* the pairs (a, b) of group names of the mesh an item's label reads as "a + b"
EntryPairs(obj, item) ==
    {p \in Range(obj.vertex_groups) \X Range(obj.vertex_groups) :
        item.groups = p[1] \o <<32, 43, 32>> \o p[2]}

\* the item is the entry of the unordered pair {a, b}
IsEntryFor(obj, item, a, b) ==
    <<a, b>> \in EntryPairs(obj, item) \/ <<b, a>> \in EntryPairs(obj, item)

\* the vertex indices an item's text lists, in the order of the text
VertexList(item) ==
    IF item.verts = <<>> THEN <<>>
    ELSE LET parts == Split(item.verts, 44)
         IN  [k \in 1..Len(parts) |-> DigitsValue(parts[k])]

VertexSet(item) == Range(VertexList(item))

\* a <= b in the lexicographic order of the code points
LexLeq(a, b) ==
    \E n \in 0..Len(a) :
        /\ n <= Len(b)
        /\ \A i \in 1..n : a[i] = b[i]
        /\ \/ n = Len(a)
           \/ n < Len(b) /\ a[n + 1] < b[n + 1]

\* where group g stands in the membership list of vertex v (0: nowhere)
PlaceOf(obj, v, g) ==
    LET gs == obj.vertices[v + 1]
    IN  IF \E k \in 1..Len(gs) : gs[k].group = g
        THEN CHOOSE k \in 1..Len(gs) : gs[k].group = g
        ELSE 0

(***************************************************************************)
(* Properties of the analysis                                              *)
(***************************************************************************)
\* C1 (completeness): after Analyze Vertices finished on a mesh, every vertex
\* that is a member of two different groups is listed in an entry of the list
\* for that pair of group names.
C1_Completeness ==
    AnalyzeFinished =>
        \A v \in VertexIds(Mesh) : \A g, h \in MemberGroups(Mesh, v) :
            g # h =>
                \E k \in 1..Len(vertex_overlap_list) :
                    /\ IsEntryFor(Mesh, vertex_overlap_list[k],
                                  GroupName(Mesh, g), GroupName(Mesh, h))
                    /\ v \in VertexSet(vertex_overlap_list[k])

\* an analysis finished on a mesh with a vertex in three groups and a second
\* vertex sharing one of its pairs
C1_Witness ==
    /\ AnalyzeFinished
    /\ \E v \in VertexIds(Mesh) : Cardinality(MemberGroups(Mesh, v)) = 3
    /\ \E k \in 1..Len(vertex_overlap_list) :
           Cardinality(VertexSet(vertex_overlap_list[k])) >= 2

\* C2 (soundness, minimality): after Analyze Vertices finished, an index is
\* listed in an entry only if it is a vertex of the mesh with weight above 0.0
\* in both groups the entry names, and a vertex that is a member of fewer than
\* two groups is listed in no entry.
C2_Soundness ==
    AnalyzeFinished =>
        /\ \A k \in 1..Len(vertex_overlap_list) :
               \A i \in VertexSet(vertex_overlap_list[k]) :
                   /\ i \in VertexIds(Mesh)
                   /\ \E g, h \in MemberGroups(Mesh, i) :
                          /\ g # h
                          /\ IsEntryFor(Mesh, vertex_overlap_list[k],
                                        GroupName(Mesh, g), GroupName(Mesh, h))
        /\ \A v \in VertexIds(Mesh) :
               Cardinality(MemberGroups(Mesh, v)) < 2 =>
                   \A k \in 1..Len(vertex_overlap_list) :
                       v \notin VertexSet(vertex_overlap_list[k])

\* an analysis found overlaps on a mesh where some vertex carries a group with
\* weight 0.0 and is a member of one group only
C2_Witness ==
    /\ AnalyzeFinished
    /\ Len(vertex_overlap_list) > 0
    /\ \E v \in VertexIds(Mesh) :
           /\ Cardinality(MemberGroups(Mesh, v)) = 1
           /\ \E k \in 1..Len(Mesh.vertices[v + 1]) :
                  Mesh.vertices[v + 1][k].weight = 0

\* C3 (symmetry, uniqueness): in the list Analyze Vertices leaves, every label
\* reads as a pair of group names in lexicographic order, and no two entries are
\* for the same unordered pair, whatever the order of the groups on a vertex.
C3_CanonicalPairs ==
    AnalyzeFinished =>
        /\ \A k \in 1..Len(vertex_overlap_list) :
               /\ EntryPairs(Mesh, vertex_overlap_list[k]) # {}
               /\ \A p \in EntryPairs(Mesh, vertex_overlap_list[k]) :
                      LexLeq(p[1], p[2])
        /\ \A j, k \in 1..Len(vertex_overlap_list) :
               j # k =>
                   \A p \in EntryPairs(Mesh, vertex_overlap_list[j]) :
                       \A q \in EntryPairs(Mesh, vertex_overlap_list[k]) :
                           {p[1], p[2]} # {q[1], q[2]}

\* an analysis finished on a mesh where two vertices carry the same two groups
\* in opposite orders, and one entry lists both vertices
C3_Witness ==
    /\ AnalyzeFinished
    /\ \E v, w \in VertexIds(Mesh) : \E g, h \in GroupIds(Mesh) :
           /\ {g, h} \subseteq MemberGroups(Mesh, v) \cap MemberGroups(Mesh, w)
           /\ PlaceOf(Mesh, v, g) < PlaceOf(Mesh, v, h)
           /\ PlaceOf(Mesh, w, g) > PlaceOf(Mesh, w, h)
           /\ \E k \in 1..Len(vertex_overlap_list) :
                  /\ IsEntryFor(Mesh, vertex_overlap_list[k],
                                GroupName(Mesh, g), GroupName(Mesh, h))
                  /\ {v, w} \subseteq VertexSet(vertex_overlap_list[k])

(***************************************************************************)
(* Properties of the face selection                                        *)
(***************************************************************************)
SelectRan == last.op = "select_overlap_vertices" /\ ActiveIsMesh

SelectFinished == SelectRan /\ last.result = "FINISHED"

\* the rows whose box is ticked
Flagged == {k \in 1..Len(vertex_overlap_list) : vertex_overlap_list[k].selected}

\* U: the vertex indices the flagged entries list
FlaggedUnion == UNION {VertexSet(vertex_overlap_list[k]) : k \in Flagged}

\* face f of the mesh has a vertex in U
TouchesUnion(obj, f) == \E v \in Range(obj.faces[f + 1]) : v \in FlaggedUnion

\* C4 (materialization): when Select Affected Faces finished, an entry is
\* flagged and a face of the mesh is selected exactly if one of its vertices is
\* in the union U of the flagged entries' indices, whatever was selected before.
C4_Materialization ==
    SelectFinished =>
        /\ Flagged # {}
        /\ \A f \in FaceIds(active_object) :
               f \in face_select[active_object] <=> TouchesUnion(Mesh, f)

\* the operator finished with one face of the mesh selected and another not
C4_Witness ==
    /\ SelectFinished
    /\ \E f, g \in FaceIds(active_object) :
           /\ f \in face_select[active_object]
           /\ g \notin face_select[active_object]

(***************************************************************************)
(* Properties of the list's life cycle                                     *)
(***************************************************************************)
\* the vertices that are members of two different groups named a and b
CommonVerts(obj, a, b) ==
    {v \in VertexIds(obj) :
        \E g, h \in MemberGroups(obj, v) :
            g # h /\ GroupName(obj, g) = a /\ GroupName(obj, h) = b}

\* the unordered pairs of group names that overlap on some vertex
OverlappingPairs(obj) ==
    {{p[1], p[2]} : p \in {q \in Range(obj.vertex_groups) \X Range(obj.vertex_groups) :
                              CommonVerts(obj, q[1], q[2]) # {}}}

\* the list is the one an analysis of the mesh from scratch gives: one entry
\* for each overlapping pair and no other, each with the pair's vertices, none
\* flagged
FreshList(obj) ==
    /\ Len(vertex_overlap_list) = Cardinality(OverlappingPairs(obj))
    /\ \A k \in 1..Len(vertex_overlap_list) :
           /\ ~vertex_overlap_list[k].selected
           /\ \E p \in EntryPairs(obj, vertex_overlap_list[k]) :
                  /\ {p[1], p[2]} \in OverlappingPairs(obj)
                  /\ VertexSet(vertex_overlap_list[k]) = CommonVerts(obj, p[1], p[2])
    /\ \A j, k \in 1..Len(vertex_overlap_list) :
           j # k => vertex_overlap_list[j].groups # vertex_overlap_list[k].groups

NoOverlaps(obj) == obj.vertices = <<>> \/ OverlappingPairs(obj) = {}

NoOverlapsMessage == "No overlaps found. Run 'Check Vertex Overlaps' first"

NothingSelectedMessage ==
    "No overlap items selected. Check the boxes next to the items you want to select"

NoVerticesMessage == "No vertices found in selected overlap items"

\* the operator's one report has this type and text
Reported(type, message) ==
    /\ Len(last.reports) = 1
    /\ last.reports[1].type = type
    /\ last.reports[1].message = message

\* C7 (distinct empty results): Select Affected Faces on a mesh reports "no
\* overlaps" exactly for an empty list, "nothing selected" exactly for a list
\* without flagged entry, "no vertices" exactly for flagged entries with an
\* empty union of indices, and otherwise finishes; the three texts differ.
C7_DistinctConditions ==
    SelectRan =>
        /\ Len(last.reports) = 1
        /\ Reported("WARNING", NoOverlapsMessage) <=> Len(vertex_overlap_list) = 0
        /\ Reported("WARNING", NothingSelectedMessage) <=>
               (Len(vertex_overlap_list) > 0 /\ Flagged = {})
        /\ Reported("WARNING", NoVerticesMessage) <=>
               (Flagged # {} /\ FlaggedUnion = {})
        /\ (last.result = "FINISHED" /\ last.reports[1].type = "INFO") <=>
               (Flagged # {} /\ FlaggedUnion # {})
        /\ last.result \in {"FINISHED", "CANCELLED"}
        /\ last.result = "CANCELLED" <=> last.reports[1].type = "WARNING"
        /\ NoOverlapsMessage # NothingSelectedMessage
        /\ NothingSelectedMessage # NoVerticesMessage
        /\ NoOverlapsMessage # NoVerticesMessage

\* the operator has just reported "nothing selected" for a list with entries
C7_Witness ==
    /\ SelectRan
    /\ Len(vertex_overlap_list) > 0
    /\ Flagged = {}
    /\ Reported("WARNING", NothingSelectedMessage)

C9_WellFormedEntries ==
    \A k \in 1..Len(vertex_overlap_list) :
        LET item == vertex_overlap_list[k]
            list == VertexList(item)
        IN  /\ Len(list) > 0
            /\ \A i, j \in 1..Len(list) : i < j => list[i] < list[j]
            /\ item.count = Cardinality(Range(list))
            /\ item.verts = VertsText(list)

\* Select Affected Faces finished on a flagged entry that lists two vertices
C9_Witness ==
    /\ SelectFinished
    /\ \E k \in Flagged : vertex_overlap_list[k].count >= 2

C11_MeshUntouched ==
    [][last'.op = "check_vertex_overlaps" =>
           /\ objects' = objects
           /\ face_select' = face_select
           /\ mode' = mode
           /\ active_object' = active_object
           /\ selected_objects' = selected_objects
           /\ mesh_select_mode' = mesh_select_mode
           /\ use_auto_normalize' = use_auto_normalize]_vars

\* an analysis finished and found overlaps on a mesh that was in edit mode with
\* a face selected
C11_Witness ==
    /\ AnalyzeFinished
    /\ mode[active_object] = "EDIT"
    /\ face_select[active_object] # {}
    /\ vertex_overlap_list # <<>>
    /\ Flagged = {}

ModeSwitchingOperators ==
    {"select_overlap_vertices", "vertex_weight_quickfix", "remove_unused_vertex_groups"}

\* C13 (mode restoration): Select Affected Faces, Automatic Hard Weights and
\* Clean Unassigned Vertices each leave every object in the mode it was in before
\* the operator ran, whether the operator finishes, is cancelled, or a call
\* raises after the mode was switched.
C13_ModeRestored ==
    [][last'.op \in ModeSwitchingOperators => mode' = mode]_vars

(***************************************************************************)
(* Entries that outlive their vertices                                     *)
(***************************************************************************)
\* the indices of U that are vertices of the mesh
ValidUnion == FlaggedUnion \cap VertexIds(Mesh)

\* the indices of an entry that are no vertex of the mesh any more
StaleIndices(item) == VertexSet(item) \ VertexIds(Mesh)

\* C14 (stale references): Select Affected Faces run with flagged entries that
\* list indices finishes also when some of the indices are no vertices of the
\* mesh any more, and selects exactly the faces with a vertex among the indices
\* of the flagged entries that still are vertices of the mesh.
C14_StaleIgnored ==
    (SelectRan /\ Flagged # {} /\ FlaggedUnion # {}) =>
        /\ last.result = "FINISHED"
        /\ \A f \in FaceIds(active_object) :
               f \in face_select[active_object] <=>
                   \E v \in Range(Mesh.faces[f + 1]) : v \in ValidUnion

\* the operator finished and selected a face although a flagged entry lists a
\* deleted vertex beside a vertex of the mesh
C14_Witness ==
    /\ SelectFinished
    /\ face_select[active_object] # {}
    /\ \E k \in Flagged :
           /\ StaleIndices(vertex_overlap_list[k]) # {}
           /\ VertexSet(vertex_overlap_list[k]) \cap VertexIds(Mesh) # {}

(***************************************************************************)
(* Order of the entries                                                    *)
(***************************************************************************)
\* the lowest index an entry lists: the vertex at which its pair was first met
FirstVertex(item) == CHOOSE i \in VertexSet(item) : \A j \in VertexSet(item) : i <= j

\* the pair of group names an entry's label reads as
PairOf(obj, item) == CHOOSE p \in EntryPairs(obj, item) : TRUE

\* pair p comes before pair q among the pairs of one sorted list of names
PairBefore(p, q) ==
    \/ p[1] # q[1] /\ LexLeq(p[1], q[1])
    \/ p[1] = q[1] /\ p[2] # q[2] /\ LexLeq(p[2], q[2])

\* C15 (entry order): Analyze Vertices leaves one entry for each overlapping
\* pair, in the order in which the pairs are first met: by the first vertex, in
\* mesh order, that carries the pair, and among the pairs first met at one
\* vertex by their place among the pairs of that vertex's sorted names.
C15_EntryOrder ==
    AnalyzeFinished =>
        /\ Len(vertex_overlap_list) = Cardinality(OverlappingPairs(Mesh))
        /\ \A j, k \in 1..Len(vertex_overlap_list) :
               j < k =>
                   LET a == FirstVertex(vertex_overlap_list[j])
                       b == FirstVertex(vertex_overlap_list[k])
                   IN  \/ a < b
                       \/ /\ a = b
                          /\ PairBefore(PairOf(Mesh, vertex_overlap_list[j]),
                                        PairOf(Mesh, vertex_overlap_list[k]))

\* an analysis left a list that is neither in the order of its labels nor in
\* ascending order of its counts
C15_Witness ==
    /\ AnalyzeFinished
    /\ \E j, k \in 1..Len(vertex_overlap_list) :
           /\ j < k
           /\ vertex_overlap_list[j].groups # vertex_overlap_list[k].groups
           /\ LexLeq(vertex_overlap_list[k].groups, vertex_overlap_list[j].groups)
    /\ \E j, k \in 1..Len(vertex_overlap_list) :
           j < k /\ vertex_overlap_list[j].count > vertex_overlap_list[k].count

(***************************************************************************)
(* Progress of the analysis                                                *)
(***************************************************************************)
\* the places i of the scan at which progress is due
ProgressPlaces(n) == {i \in 0..(n - 1) : i % 100 = 0}

EntryOf(obj, item) ==
    \E p \in EntryPairs(obj, item) :
        /\ {p[1], p[2]} \in OverlappingPairs(obj)
        /\ VertexSet(item) = CommonVerts(obj, p[1], p[2])

\* C17 (list bound to its mesh): whenever Select Affected Faces has selected
\* faces of a mesh, the flagged entries whose indices it used are entries of an
\* analysis of that mesh (the meshes do not change here, so these are the
\* entries any analysis of the mesh gives): the list computed for one object is
\* not applied to the faces of another.
C17_TableOfActiveMesh ==
    (SelectFinished /\ face_select[active_object] # {}) =>
        \A k \in Flagged : EntryOf(Mesh, vertex_overlap_list[k])

====
